---- MODULE Spec2Model ----
(***************************************************************************)
(* Model of dnssync_nc: DNSRecord / DNSRecordSet (DNSRecords.py) and       *)
(* NetcupConnection (NetcupConnection.py).                                 *)
(*                                                                         *)
(* Python values are encoded as follows.                                   *)
(*   str            a sequence of one-character strings                    *)
(*   Optional[x]    None is <<>>, a present value x is <<x>>               *)
(*   JSON scalar    [kind, n, s] with kind "null", "int" or "str"          *)
(*   dict           a function from key strings to values                  *)
(*   object         an index into heap; a list holds such indices          *)
(***************************************************************************)
EXTENDS Integers, Sequences, FiniteSets, TLC

VARIABLES heap, records, addCalls, session_id, call

vars == <<heap, records, addCalls, session_id, call>>

----------------------------------------------------------------------------
(* Bounds *)

\* objects the caller holds at once, and records added to the record set
MaxObjects == 2
MaxLen == 3
\* objects held at once when the record functions are explored on their own
MaxRecObjects == 1

----------------------------------------------------------------------------
(* Python values *)

None == <<>>
Some(x) == <<x>>
Val(o) == o[1]

WNull == [kind |-> "null", n |-> 0, s |-> <<>>]
WInt(i) == [kind |-> "int", n |-> i, s |-> <<>>]
WStr(str) == [kind |-> "str", n |-> 0, s |-> str]

Digits == {"0", "1", "2", "3", "4", "5", "6", "7", "8", "9"}

DigitVal(c) ==
    CASE c = "0" -> 0 [] c = "1" -> 1 [] c = "2" -> 2 [] c = "3" -> 3
      [] c = "4" -> 4 [] c = "5" -> 5 [] c = "6" -> 6 [] c = "7" -> 7
      [] c = "8" -> 8 [] c = "9" -> 9

RECURSIVE ParseDigits(_)
ParseDigits(str) ==
    IF str = <<>> THEN 0
    ELSE 10 * ParseDigits(SubSeq(str, 1, Len(str) - 1)) + DigitVal(str[Len(str)])

\* int(x): an int is itself, a string of digits is parsed, None is a TypeError
PyInt(w) ==
    CASE w.kind = "int" -> [exc |-> "", v |-> w.n]
      [] w.kind = "str" ->
            IF w.s # <<>> /\ \A i \in 1..Len(w.s) : w.s[i] \in Digits
            THEN [exc |-> "", v |-> ParseDigits(w.s)]
            ELSE [exc |-> "ValueError", v |-> 0]
      [] w.kind = "null" -> [exc |-> "TypeError", v |-> 0]

UpperChar(c) ==
    CASE c = "m" -> "M" [] c = "x" -> "X" [] c = "a" -> "A" [] c = "w" -> "W"
      [] OTHER -> c

\* str.upper()
Upper(str) == [i \in 1..Len(str) |-> UpperChar(str[i])]

Ord(c) ==
    CASE c = "M" -> 77 [] c = "X" -> 88 [] c = "A" -> 65
      [] c = "m" -> 109 [] c = "x" -> 120 [] c = "a" -> 97
      [] c = "w" -> 119 [] c = "W" -> 87 [] c = "@" -> 64
      [] c = "1" -> 49 [] c = "2" -> 50 [] OTHER -> 63

RECURSIVE HashSeq(_, _)
HashSeq(hs, acc) ==
    IF hs = <<>> THEN acc
    ELSE HashSeq(Tail(hs), (acc * 31 + Head(hs)) % 65536)

\* hash() of a str, of an Optional[int] and of a tuple of hashed elements
HashStr(str) == HashSeq([i \in 1..Len(str) |-> Ord(str[i])], 7)
HashOptInt(o) == IF o = None THEN 4238 ELSE Val(o) % 65536
HashTuple(hs) == HashSeq(hs, 3527)

----------------------------------------------------------------------------
(* DNSRecord *)

\* DNSRecord.__init__
DNSRecord(record_id, record_type, hostname, destination, priority) ==
    [record_id |-> record_id, record_type |-> record_type,
     hostname |-> hostname, destination |-> destination,
     priority |-> priority, delete |-> FALSE]

RecordNewCaseSensitive(record_type, hostname, destination, priority) ==
    LET p == IF record_type = <<"M", "X">> /\ priority = None
             THEN Some(10) ELSE priority
    IN DNSRecord(None, record_type, hostname, destination, p)

\* DNSRecord.new
RecordNew(record_type, hostname, destination, priority) ==
    LET p == IF Upper(record_type) = <<"M", "X">> /\ priority = None
             THEN Some(10) ELSE priority
    IN DNSRecord(None, record_type, hostname, destination, p)

CmpKeyWithId(r) ==
    <<r.record_id, r.record_type, r.hostname, r.destination, r.priority>>

\* DNSRecord._cmpkey
CmpKey(r) == <<r.record_type, r.hostname, r.destination, r.priority>>

RecordDeleteToggles(r) == [r EXCEPT !.delete = ~r.delete]

\* DNSRecord.delete
RecordDelete(r) == [r EXCEPT !.delete = TRUE]

\* DNSRecord.__eq__ of two DNSRecord objects
RecordEq(a, b) == CmpKey(a) = CmpKey(b)

\* DNSRecord.__hash__
RecordHash(r) ==
    HashTuple(<<HashStr(r.record_type), HashStr(r.hostname),
                HashStr(r.destination), HashOptInt(r.priority)>>)

\* DNSRecord.deserialize: [exc, rec]; exc is "" when a record is returned
RecordDeserialize(data) ==
    LET hasprio == "priority" \in DOMAIN data
        pint == IF hasprio THEN PyInt(data["priority"]) ELSE [exc |-> "", v |-> 0]
        priority == IF hasprio /\ pint.exc = "" /\ pint.v # 0
                    THEN Some(pint.v) ELSE None
        fail(e) == [exc |-> e, rec |-> None]
    IN  IF pint.exc # "" THEN fail(pint.exc)
        ELSE IF "id" \notin DOMAIN data THEN fail("KeyError")
        ELSE IF PyInt(data["id"]).exc # "" THEN fail(PyInt(data["id"]).exc)
        ELSE IF {"type", "hostname", "destination"} \ DOMAIN data # {}
             THEN fail("KeyError")
        ELSE LET record == DNSRecord(Some(PyInt(data["id"]).v), data["type"],
                                     data["hostname"], data["destination"],
                                     priority)
             IN [exc |-> "",
                 rec |-> Some(IF "delete" \in DOMAIN data /\ data["delete"] = TRUE
                              THEN RecordDelete(record) ELSE record)]

RecordSerializeDropsDeleted(r) ==
    IF r.delete THEN None
    ELSE LET result == [id |-> IF r.record_id = None THEN WNull
                                ELSE WInt(Val(r.record_id)),
                        type |-> r.record_type,
                        hostname |-> r.hostname,
                        destination |-> r.destination,
                        deleterecord |-> r.delete,
                        state |-> WNull]
         IN Some(IF r.priority # None
                 THEN result @@ ("priority" :> WInt(Val(r.priority)))
                 ELSE result)

RecordSerializeZeroPriority(r) ==
    IF r.delete /\ r.record_id = None THEN None
    ELSE Some([id |-> IF r.record_id = None THEN WNull
                      ELSE WInt(Val(r.record_id)),
               type |-> r.record_type,
               hostname |-> r.hostname,
               destination |-> r.destination,
               deleterecord |-> r.delete,
               state |-> WNull,
               priority |-> IF r.priority = None THEN WInt(0)
                            ELSE WInt(Val(r.priority))])

\* DNSRecord.serialize: None when the record is dropped, else Some(dict)
RecordSerialize(r) ==
    IF r.delete /\ r.record_id = None THEN None
    ELSE LET result == [id |-> IF r.record_id = None THEN WNull
                                ELSE WInt(Val(r.record_id)),
                        type |-> r.record_type,
                        hostname |-> r.hostname,
                        destination |-> r.destination,
                        deleterecord |-> r.delete,
                        state |-> WNull]
         IN Some(IF r.priority # None
                 THEN result @@ ("priority" :> WInt(Val(r.priority)))
                 ELSE result)

----------------------------------------------------------------------------
(* DNSRecordSet: records is the list _records of references into heap *)

RECURSIVE FilterNotNone(_)
FilterNotNone(xs) ==
    IF xs = <<>> THEN <<>>
    ELSE IF Head(xs) = None THEN FilterNotNone(Tail(xs))
    ELSE <<Val(Head(xs))>> \o FilterNotNone(Tail(xs))

\* DNSRecordSet.serialize
SetSerialize(recs, h) ==
    [dnsrecords |-> FilterNotNone([i \in 1..Len(recs) |-> RecordSerialize(h[recs[i]])])]

SetDeleteAllKnownOnly(recs, h) ==
    [o \in DOMAIN h |->
        IF h[o].record_id # None /\ \E i \in 1..Len(recs) : recs[i] = o
        THEN RecordDelete(h[o]) ELSE h[o]]

\* DNSRecordSet.delete_all, as the heap it leaves
SetDeleteAll(recs, h) ==
    [o \in DOMAIN h |->
        IF \E i \in 1..Len(recs) : recs[i] = o THEN RecordDelete(h[o]) ELSE h[o]]

SetDeleteHostnameAnyCase(recs, h, hostname) ==
    [o \in DOMAIN h |->
        IF \E i \in 1..Len(recs) : recs[i] = o /\ Upper(h[o].hostname) = Upper(hostname)
        THEN RecordDelete(h[o]) ELSE h[o]]

\* DNSRecordSet.delete_hostname, as the heap it leaves
SetDeleteHostname(recs, h, hostname) ==
    [o \in DOMAIN h |->
        IF \E i \in 1..Len(recs) : recs[i] = o /\ h[o].hostname = hostname
        THEN RecordDelete(h[o]) ELSE h[o]]

----------------------------------------------------------------------------
(* Inputs *)

MX == <<"M", "X">>
HostLower == <<"w", "w", "w">>
HostUpper == <<"W", "W", "W">>

\* a wire record as the provider or serialize() writes it; None leaves a key out
WireRecord(id, type, hostname, destination, priority, delete) ==
    LET base == [type |-> type, hostname |-> hostname, destination |-> destination]
        a == IF id = None THEN base ELSE base @@ ("id" :> Val(id))
        b == IF priority = None THEN a ELSE a @@ ("priority" :> Val(priority))
    IN IF delete = None THEN b ELSE b @@ ("delete" :> Val(delete))

SetTypes == {<<"A">>}
SetHostnames == {HostLower, HostUpper}
SetNewInputs ==
    {<<t, h, <<"1">>, None>> : t \in SetTypes, h \in SetHostnames}
        \cup {<<t, HostLower, <<"1">>, Some(10)>> : t \in SetTypes}
SetWireInputs ==
    {WireRecord(Some(WInt(5)), t, hd[1], hd[2], None, None) :
        t \in SetTypes,
        hd \in {<<HostLower, <<"1">>>>, <<HostLower, <<"2">>>>}}

RecTypes == {MX, <<"m", "x">>, <<"M", "x">>, <<"m", "X">>, <<"A">>, <<"a">>}
RecInitInputs ==
    {<<id, t, <<"@">>, <<"1">>, p>> :
        id \in {None, Some(5)}, t \in {MX, <<"A">>},
        p \in {None, Some(0), Some(10)}}
RecNewInputs ==
    {<<t, HostLower, <<"1">>, p>> :
        t \in RecTypes, p \in {None, Some(0), Some(10), Some(20)}}
RecWireInputs ==
    {WireRecord(id, t, <<"@">>, <<"1">>, p, del) :
        id \in {None, Some(WNull), Some(WInt(5)), Some(WStr(<<"5">>)),
                Some(WStr(<<"1", "2">>)), Some(WStr(<<"x">>))},
        t \in {MX, <<"A">>},
        p \in {None, Some(WInt(0)), Some(WStr(<<"0">>)), Some(WInt(10)),
               Some(WStr(<<"1", "0">>)), Some(WNull)},
        del \in {None, Some(TRUE), Some(FALSE)}}

----------------------------------------------------------------------------
(* The caller's operations on records and on its record set *)

\* call is the last call the caller made: its arguments, the exception it
\* raised ("" when it returned), the value it returned, the requests it posted
\* and the session id the connection held when it began
Called(op, args, exc, val, posted) ==
    [op |-> op, args |-> args, exc |-> exc, val |-> val, posted |-> posted,
     sess |-> session_id]

Returned(op, args, exc, val) == Called(op, args, exc, val, <<>>)

Init ==
    /\ heap = <<>>
    /\ records = <<>>
    /\ addCalls = 0
    /\ session_id = None
    /\ call = Returned("init", <<>>, "", None)

\* r = DNSRecord.new(record_type, hostname, destination, priority)
New(inputs, cap) ==
    \E a \in inputs :
        /\ Len(heap) < cap
        /\ heap' = Append(heap, RecordNew(a[1], a[2], a[3], a[4]))
        /\ call' = Returned("new", a, "", Some(Len(heap) + 1))
        /\ UNCHANGED <<records, addCalls, session_id>>

\* r = DNSRecord(record_id, record_type, hostname, destination, priority)
Construct(inputs, cap) ==
    \E a \in inputs :
        /\ Len(heap) < cap
        /\ heap' = Append(heap, DNSRecord(a[1], a[2], a[3], a[4], a[5]))
        /\ call' = Returned("DNSRecord", a, "", Some(Len(heap) + 1))
        /\ UNCHANGED <<records, addCalls, session_id>>

\* r = DNSRecord.deserialize(data)
Deserialize(inputs, cap) ==
    \E data \in inputs :
        LET res == RecordDeserialize(data)
        IN  /\ Len(heap) < cap
            /\ heap' = IF res.exc = "" THEN Append(heap, Val(res.rec)) ELSE heap
            /\ call' = Returned("deserialize", <<data>>, res.exc,
                                IF res.exc = "" THEN Some(Len(heap) + 1) ELSE None)
            /\ UNCHANGED <<records, addCalls, session_id>>

\* r.delete()
Delete ==
    \E o \in DOMAIN heap :
        /\ heap' = [heap EXCEPT ![o] = RecordDelete(heap[o])]
        /\ call' = Returned("delete", <<o>>, "", None)
        /\ UNCHANGED <<records, addCalls, session_id>>

\* DNSRecord.deserialize(r.serialize()); no reference to the result is kept
RoundTrip ==
    \E o \in DOMAIN heap :
        LET ser == RecordSerialize(heap[o])
            res == IF ser = None THEN [exc |-> "TypeError", rec |-> None]
                   ELSE RecordDeserialize(Val(ser))
        IN  /\ call' = Returned("roundtrip", <<o>>, res.exc, res.rec)
            /\ UNCHANGED <<heap, records, addCalls, session_id>>

AddUnlessContained ==
    \E o \in DOMAIN heap :
        /\ Len(records) < MaxLen
        /\ records' = IF \E i \in 1..Len(records) : heap[records[i]] = heap[o]
                      THEN records ELSE Append(records, o)
        /\ addCalls' = addCalls + 1
        /\ call' = Returned("add", <<o>>, "", None)
        /\ UNCHANGED <<heap, session_id>>

\* record_set.add(r)
Add ==
    \E o \in DOMAIN heap :
        /\ Len(records) < MaxLen
        /\ records' = Append(records, o)
        /\ addCalls' = addCalls + 1
        /\ call' = Returned("add", <<o>>, "", None)
        /\ UNCHANGED <<heap, session_id>>

\* record_set.delete_all()
DeleteAll ==
    /\ heap' = SetDeleteAll(records, heap)
    /\ call' = Returned("delete_all", <<>>, "", None)
    /\ UNCHANGED <<records, addCalls, session_id>>

\* record_set.delete_hostname(hostname)
DeleteHostname ==
    \E hostname \in SetHostnames :
        /\ heap' = SetDeleteHostname(records, heap, hostname)
        /\ call' = Returned("delete_hostname", <<hostname>>, "", None)
        /\ UNCHANGED <<records, addCalls, session_id>>

\* record_set.serialize()
Serialize ==
    /\ call' = Returned("serialize", <<>>, "", Some(SetSerialize(records, heap)))
    /\ UNCHANGED <<heap, records, addCalls, session_id>>

NewSet == New(SetNewInputs, MaxObjects)
DeserializeSet == Deserialize(SetWireInputs, MaxObjects)

Next ==
    \/ NewSet
    \/ DeserializeSet
    \/ Delete
    \/ Add
    \/ DeleteAll
    \/ DeleteHostname
    \/ Serialize

Spec == Init /\ [][Next]_vars

----------------------------------------------------------------------------
(* NetcupConnection *)

DomainName == <<"d">>
ApiKey == <<"k">>
ApiPassword == <<"p">>
Customer == <<"1">>

\* responsedata of a response body: a dict (None leaves a key out) or a str
RDDict(dnsrecords, apisessionid) ==
    [kind |-> "dict", dnsrecords |-> dnsrecords, apisessionid |-> apisessionid]
RDStr == [kind |-> "str", dnsrecords |-> None, apisessionid |-> None]

ResponseDatas ==
    {RDStr,
     RDDict(None, Some(<<"s">>)),
     RDDict(Some(<<>>), None),
     RDDict(Some(<<WireRecord(Some(WStr(<<"5">>)), MX, <<"@">>, <<"1">>,
                              Some(WStr(<<"0">>)), None)>>), None),
     RDDict(Some(<<WireRecord(Some(WNull), <<"A">>, HostLower, <<"1">>,
                              None, None)>>), None)}

\* what _action returns for a response: the HTTP status and the JSON body
Responses ==
    [status : {200, 500},
     data : [status : {"success", "ok", "error"}, longmessage : {<<"e">>},
             responsedata : ResponseDatas]]

RECURSIVE DeserializeAll(_)
\* the loop of DNSRecordSet.deserialize: [exc, recs]
DeserializeAll(datas) ==
    IF datas = <<>> THEN [exc |-> "", recs |-> <<>>]
    ELSE LET first == RecordDeserialize(Head(datas))
             rest == DeserializeAll(Tail(datas))
         IN IF first.exc # "" THEN [exc |-> first.exc, recs |-> <<>>]
            ELSE IF rest.exc # "" THEN rest
            ELSE [exc |-> "", recs |-> <<Val(first.rec)>> \o rest.recs]

\* DNSRecordSet.deserialize: [exc, val]; val is Some(record set) when exc is ""
SetDeserialize(domainname, data) ==
    IF data.kind # "dict" THEN [exc |-> "AssertionError", val |-> None]
    ELSE IF data.dnsrecords = None THEN [exc |-> "KeyError", val |-> None]
    ELSE LET all == DeserializeAll(Val(data.dnsrecords))
         IN IF all.exc # "" THEN [exc |-> all.exc, val |-> None]
            ELSE [exc |-> "",
                  val |-> Some([class |-> "DNSRecordSet",
                                domainname |-> domainname,
                                records |-> all.recs])]

\* DNSZone.deserialize
ZoneDeserialize(data) == [exc |-> "", val |-> Some([class |-> "DNSZone"])]

\* the request _action posts
Request(action_name, params) == [action |-> action_name, param |-> params]

\* the params _session_action sends: the caller's and the session's
SessionParams(params) ==
    params @@ [apikey |-> ApiKey, apisessionid |-> Val(session_id),
               customernumber |-> Customer]

\* _session_action: None without a session, else the response to the request
SessionAction(resp) == IF session_id = None THEN None ELSE Some(resp)

SessionPosted(action_name, params) ==
    IF session_id = None THEN <<>>
    ELSE <<Request(action_name, SessionParams(params))>>

SessionArgs(resp) == IF session_id = None THEN <<>> ELSE <<resp>>

NoParams == [x \in {} |-> None]

\* connection.login()
Login ==
    \E resp \in Responses :
        LET rd == resp.data.responsedata
            exc == IF resp.status # 200 THEN ""
                   ELSE IF rd.kind # "dict" THEN "TypeError"
                   ELSE IF rd.apisessionid = None THEN "KeyError"
                   ELSE ""
            posted == <<Request("login", [apikey |-> ApiKey,
                                          apipassword |-> ApiPassword,
                                          customernumber |-> Customer])>>
        IN  /\ session_id' = IF resp.status = 200 /\ exc = ""
                             THEN rd.apisessionid ELSE session_id
            /\ call' = Called("login", <<resp>>, exc,
                              IF exc = "" THEN Some(resp) ELSE None, posted)
            /\ UNCHANGED <<heap, records, addCalls>>

\* logout() and list_all_domains(): the result of _session_action as it is
PlainSessionCall(op, action_name) ==
    \E resp \in Responses :
        /\ call' = Called(op, SessionArgs(resp), "", SessionAction(resp),
                          SessionPosted(action_name, NoParams))
        /\ UNCHANGED <<heap, records, addCalls, session_id>>

Logout == PlainSessionCall("logout", "logout")

ListAllDomains == PlainSessionCall("list_all_domains", "listallDomains")

\* connection.info_dns_records(domainname)
InfoDnsRecords ==
    \E resp \in Responses :
        LET response == SessionAction(resp)
            des == SetDeserialize(DomainName, resp.data.responsedata)
            res == IF response = None THEN [exc |-> "TypeError", val |-> None]
                   ELSE IF resp.status # 200
                        THEN [exc |-> "ServerResponseError", val |-> None]
                   ELSE IF resp.data.status # "success"
                        THEN [exc |-> "ServerResponseError", val |-> None]
                   ELSE des
        IN  /\ call' = Called("info_dns_records", SessionArgs(resp), res.exc, res.val,
                              SessionPosted("infoDnsRecords",
                                            [domainname |-> DomainName]))
            /\ UNCHANGED <<heap, records, addCalls, session_id>>

\* connection.info_dns_zone(domainname)
InfoDnsZone ==
    \E resp \in Responses :
        LET response == SessionAction(resp)
            res == IF response = None THEN [exc |-> "TypeError", val |-> None]
                   ELSE IF resp.status # 200
                        THEN [exc |-> "ServerResponseError", val |-> None]
                   ELSE ZoneDeserialize(resp.data.responsedata)
        IN  /\ call' = Called("info_dns_zone", SessionArgs(resp), res.exc, res.val,
                              SessionPosted("infoDnsZone",
                                            [domainname |-> DomainName]))
            /\ UNCHANGED <<heap, records, addCalls, session_id>>

\* connection.update_dns_records(record_set)
UpdateDnsRecords ==
    \E resp \in Responses :
        LET response == SessionAction(resp)
            des == SetDeserialize(DomainName, resp.data.responsedata)
            res == IF response = None THEN [exc |-> "TypeError", val |-> None]
                   ELSE IF resp.status = 200 \/ resp.data.status # "ok"
                        THEN des
                   ELSE [exc |-> "ServerResponseError", val |-> None]
        IN  /\ call' = Called("update_dns_records", SessionArgs(resp), res.exc,
                              res.val,
                              SessionPosted("updateDnsRecords",
                                  [domainname |-> DomainName,
                                   dnsrecordset |-> SetSerialize(records, heap)]))
            /\ UNCHANGED <<heap, records, addCalls, session_id>>

\* connection.update_dns_zone(dns_zone)
UpdateDnsZone ==
    \E resp \in Responses :
        LET response == SessionAction(resp)
            res == IF response = None THEN [exc |-> "TypeError", val |-> None]
                   ELSE IF resp.status = 200
                        THEN ZoneDeserialize(resp.data.responsedata)
                   ELSE [exc |-> "ServerResponseError", val |-> None]
        IN  /\ call' = Called("update_dns_zone", SessionArgs(resp), res.exc, res.val,
                              SessionPosted("updateDnsZone",
                                  [domainname |-> DomainName,
                                   dnszone |-> [class |-> "DNSZone"]]))
            /\ UNCHANGED <<heap, records, addCalls, session_id>>

NewConn == New({<<MX, <<"@">>, <<"1">>, None>>}, MaxRecObjects)

NextConn ==
    \/ NewConn
    \/ Add
    \/ Delete
    \/ Login
    \/ Logout
    \/ ListAllDomains
    \/ InfoDnsRecords
    \/ InfoDnsZone
    \/ UpdateDnsRecords
    \/ UpdateDnsZone

SpecConn == Init /\ [][NextConn]_vars

NewRec == New(RecNewInputs, MaxRecObjects)
DeserializeRec == Deserialize(RecWireInputs, MaxRecObjects)

ConstructRec == Construct(RecInitInputs, MaxRecObjects)

NextRecord ==
    \/ NewRec
    \/ ConstructRec
    \/ DeserializeRec
    \/ Delete
    \/ RoundTrip

SpecRecord == Init /\ [][NextRecord]_vars

----------------------------------------------------------------------------
(* Properties *)

Contained(o) == \E i \in 1..Len(records) : records[i] = o

\* the record at position i of the record set is left out of the payload
Omitted(i) == heap[records[i]].delete /\ heap[records[i]].record_id = None

\* how many of the first i records of the record set are in the payload
Rank(i) == Cardinality({j \in 1..i : ~Omitted(j)})

\* the wire entry e describes the record r
Describes(e, r) ==
    /\ e.id = (IF r.record_id = None THEN WNull ELSE WInt(Val(r.record_id)))
    /\ e.type = r.record_type
    /\ e.hostname = r.hostname
    /\ e.destination = r.destination
    /\ e.deleterecord = r.delete

\* C1: the dnsrecords of serialize() hold, in insertion order, one entry for
\* every contained record that is not both pendingDelete and id-less; a
\* pendingDelete record with an id is present with deleterecord = true.
C1_SerializeOmitsExactlyDeletedNew ==
    call.op = "serialize" =>
        LET out == Val(call.val).dnsrecords
        IN  /\ Len(out) = Rank(Len(records))
            /\ \A i \in 1..Len(records) :
                   ~Omitted(i) =>
                       /\ Describes(out[Rank(i)], heap[records[i]])
                       /\ (heap[records[i]].delete => out[Rank(i)].deleterecord = TRUE)

C1_Witness ==
    /\ call.op = "serialize"
    /\ \E i, j \in 1..Len(records) :
           /\ i < j
           /\ Omitted(i)
           /\ heap[records[j]].delete
           /\ heap[records[j]].record_id # None
           /\ Len(Val(call.val).dnsrecords) = Rank(j)
           /\ Rank(j) < j

IsRoundTripOf(o) == call.op = "roundtrip" /\ call.args[1] = o

\* C2 as stated: every record that is not pendingDelete survives
\* deserialize(serialize(r)) as an equal record with the same fields.
C2_RoundTripAnyRecord ==
    \A o \in DOMAIN heap :
        IsRoundTripOf(o) /\ ~heap[o].delete =>
            /\ call.exc = ""
            /\ call.val # None
            /\ Val(call.val) = heap[o]

\* C2: a record that is not pendingDelete, has an id and has a priority other
\* than 0 survives deserialize(serialize(r)) with id, type, hostname,
\* destination and priority preserved; a record with priority None serializes
\* without a priority key, and a wire priority of 0 deserializes to None.
C2_RoundTrip ==
    /\ \A o \in DOMAIN heap :
           IsRoundTripOf(o) /\ ~heap[o].delete /\ heap[o].record_id # None
                            /\ heap[o].priority # Some(0) =>
               /\ call.exc = ""
               /\ call.val # None
               /\ CmpKey(Val(call.val)) = <<heap[o].record_type, heap[o].hostname,
                                            heap[o].destination, heap[o].priority>>
               /\ Val(call.val).record_id = heap[o].record_id
               /\ Val(call.val).record_type = heap[o].record_type
               /\ Val(call.val).hostname = heap[o].hostname
               /\ Val(call.val).destination = heap[o].destination
               /\ Val(call.val).priority = heap[o].priority
    /\ \A o \in DOMAIN heap :
           heap[o].priority = None /\ RecordSerialize(heap[o]) # None =>
               "priority" \notin DOMAIN Val(RecordSerialize(heap[o]))
    /\ call.op = "deserialize" /\ call.exc = ""
           /\ "priority" \in DOMAIN call.args[1]
           /\ call.args[1]["priority"] \in {WInt(0), WStr(<<"0">>)} =>
               heap[Val(call.val)].priority = None

C2_Witness ==
    /\ call.op = "roundtrip"
    /\ call.exc = ""
    /\ ~heap[call.args[1]].delete
    /\ heap[call.args[1]].record_id = Some(12)
    /\ heap[call.args[1]].priority = Some(10)
    /\ Val(call.val).priority = Some(10)

AnyCaseMX == {<<"M", "X">>, <<"m", "x">>, <<"M", "x">>, <<"m", "X">>}

SameTuple(a, b) ==
    /\ a.record_type = b.record_type
    /\ a.hostname = b.hostname
    /\ a.destination = b.destination
    /\ a.priority = b.priority

\* C6: two records are equal exactly when type, hostname, destination and
\* priority match, equal records have equal hashes, and no step (a delete
\* included) changes which of the caller's records are equal to which.
C6_StructuralEquality ==
    /\ [](\A a, b \in DOMAIN heap :
            /\ RecordEq(heap[a], heap[b]) <=> SameTuple(heap[a], heap[b])
            /\ RecordEq(heap[a], heap[b]) => RecordHash(heap[a]) = RecordHash(heap[b]))
    /\ [][\A a \in DOMAIN heap :
            heap'[a] # heap[a] =>
                /\ RecordHash(heap'[a]) = RecordHash(heap[a])
                /\ \A b \in DOMAIN heap :
                       RecordEq(heap'[a], heap'[b]) <=> RecordEq(heap[a], heap[b])]_vars

C6_Witness ==
    /\ call.op = "delete"
    /\ \E a, b \in DOMAIN heap :
           /\ RecordEq(heap[a], heap[b])
           /\ heap[a].record_id # heap[b].record_id
           /\ heap[a].delete
           /\ ~heap[b].delete

\* C7: deleteByHostname(h) sets pendingDelete on exactly the contained records
\* whose hostname is h, compared exactly, and changes nothing else.
C7_DeleteByHostnameFrame ==
    [][call'.op = "delete_hostname" =>
        /\ records' = records
        /\ DOMAIN heap' = DOMAIN heap
        /\ \A o \in DOMAIN heap :
               heap'[o] = IF Contained(o) /\ heap[o].hostname = call'.args[1]
                          THEN [heap[o] EXCEPT !.delete = TRUE]
                          ELSE heap[o]]_vars

C7_Witness ==
    /\ call.op = "delete_hostname"
    /\ call.args[1] = HostLower
    /\ \E a, b \in DOMAIN heap :
           /\ Contained(a) /\ Contained(b)
           /\ heap[a].hostname = HostLower /\ heap[a].delete
           /\ heap[b].hostname = HostUpper /\ ~heap[b].delete

\* the payload entries for the contained records that have an id, in order
RECURSIVE ExpectedDeleted(_)
ExpectedDeleted(recs) ==
    IF recs = <<>> THEN <<>>
    ELSE (IF heap[Head(recs)].record_id = None THEN <<>> ELSE <<Head(recs)>>)
         \o ExpectedDeleted(Tail(recs))

\* C8: deleteAll() marks every record contained at the call and no other; a
\* later add marks nothing; a serialize() directly after deleteAll() yields
\* one entry per contained record with an id, each with deleterecord = true.
C8_DeleteAll ==
    [][/\ call'.op = "delete_all" =>
              /\ records' = records
              /\ DOMAIN heap' = DOMAIN heap
              /\ \A o \in DOMAIN heap :
                     heap'[o] = IF Contained(o)
                                THEN [heap[o] EXCEPT !.delete = TRUE]
                                ELSE heap[o]
       /\ call'.op = "add" => heap' = heap
       /\ call.op = "delete_all" /\ call'.op = "serialize" =>
              LET out == Val(call'.val).dnsrecords
                  exp == ExpectedDeleted(records)
              IN  /\ Len(out) = Len(exp)
                  /\ \A k \in 1..Len(exp) :
                         /\ out[k].id = WInt(Val(heap[exp[k]].record_id))
                         /\ out[k].hostname = heap[exp[k]].hostname
                         /\ out[k].destination = heap[exp[k]].destination
                         /\ out[k].deleterecord = TRUE]_vars

C8_Witness ==
    /\ call.op = "delete_all"
    /\ \E i, j \in 1..Len(records) :
           /\ heap[records[i]].record_id = None
           /\ heap[records[j]].record_id # None
           /\ heap[records[i]].delete
           /\ heap[records[j]].delete

\* C9: the record sequence only grows, by one reference appended per add;
\* its length is the number of add calls; serialize changes no record.
C9_NeverRemoves ==
    /\ [](Len(records) = addCalls)
    /\ [][/\ \/ records' = records /\ addCalls' = addCalls
             \/ /\ call'.op = "add"
                /\ records' = Append(records, call'.args[1])
                /\ addCalls' = addCalls + 1
          /\ call'.op = "add" => Len(records') = Len(records) + 1
          /\ call'.op = "serialize" => heap' = heap /\ records' = records]_vars

C9_Witness ==
    /\ call.op = "serialize"
    /\ Len(records) = MaxLen
    /\ addCalls = MaxLen
    /\ \E i \in 1..Len(records) : Omitted(i)
    /\ Len(Val(call.val).dnsrecords) < Len(records)

\* C10: a record that is pendingDelete stays pendingDelete, and delete() on a
\* record that is already pendingDelete changes nothing.
C10_DeleteIsOneWay ==
    [][/\ \A o \in DOMAIN heap : heap[o].delete => heap'[o].delete
       /\ call'.op = "delete" /\ heap[call'.args[1]].delete =>
              heap' = heap /\ records' = records]_vars

C10_Witness ==
    /\ call.op = "delete"
    /\ heap[call.args[1]].delete
    /\ Contained(call.args[1])
    /\ \E o \in DOMAIN heap : ~heap[o].delete

SessionOps ==
    {"logout", "list_all_domains", "info_dns_records", "info_dns_zone",
     "update_dns_records", "update_dns_zone"}

\* the response the call got is a failure: not HTTP 200, or HTTP 200 with an
\* application status other than success
FailureResponse(resp) ==
    \/ resp.status # 200
    \/ resp.data.status \notin {"success", "ok"}

\* C3: info_dns_records and update_dns_records on a logged-in connection end
\* in a ServerResponseError, returning no record set, whenever the response
\* is not HTTP 200 or carries an application status that is not success.
C3_FailureRaises ==
    call.op \in {"info_dns_records", "update_dns_records"} /\ call.sess # None
        /\ FailureResponse(call.args[1]) =>
            call.exc = "ServerResponseError" /\ call.val = None

\* C4: a session-scoped operation called while no session id is held posts
\* no request, returns nothing and raises nothing.
C4_NoSessionNoFailure ==
    call.op \in SessionOps /\ call.sess = None =>
        call.posted = <<>> /\ call.val = None /\ call.exc = ""

====
